---------------------------- MODULE Spec2Model ----------------------------
(***************************************************************************)
(* A model of poezio's input line (class Input of src/window.py): the text *)
(* buffer, its two cursor coordinates, the history, the clipboard and the  *)
(* two nickname completions; and of its text area (class TextWin): the     *)
(* wrapping of the messages into lines and the scrolling.  Strings are     *)
(* sequences of one-character strings; Python's slicing, find/rfind,       *)
(* strip, split and lower are modelled by what they compute.               *)
(***************************************************************************)
EXTENDS Integers, Sequences, FiniteSets, TLC

(***************************************************************************)
(* Bounds of the model.                                                    *)
(***************************************************************************)
\* the widest input window (widths 2..MaxWidth are explored)
MaxWidth == 3
\* the longest text built when every key is in play (Spec)
MaxLen == 2
\* the number of lines submitted when every key is in play (Spec)
MaxSubmit == 1
\* the longest text built by the editing keys alone (SpecEdit)
MaxEditLen == 3
\* the longest line and the number of lines submitted (SpecHistory)
MaxLineLen == 3
MaxHist == 2
\* the longest text built by typing and completing (SpecCompletion)
MaxCompletionLen == 4

\* the longest message body (SpecWrap)
MaxBody == 4
\* the largest width left to the body of a message that has a nick
MaxAvailable == 3
\* the number of messages of a room and the longest of them (SpecTextWin)
MaxMessages == 2
MaxShortBody == 3
\* the tallest text area and the highest scroll offset (SpecTextWin)
MaxHeight == 3
MaxPos == 3

\* the number of contacts of the roster (SpecRegions)
MaxContacts == 2

\* the tallest roster window (SpecRoster)
MaxRosterHeight == 4

\* the number of messages in the buffer of a conversation (SpecConversation)
MaxBuffer == 3

\* the printable characters the keyboard delivers
Keys == {"a", " "}

\* the printable characters typed before a completion (SpecCompletion)
CompletionKeys == {"a", "l", " "}

\* some nicks, each a character sequence
nick_alice == <<"a", "l", "i", "c", "e">>
nick_alicia == <<"a", "l", "i", "c", "i", "a">>
nick_Al == <<"A", "l">>
nick_al == <<"a", "l">>
nick_la == <<"l", "a">>
nick_a == <<"a">>
nick_a_l == <<"a", " ", "l">>

\* the nick lists handed to auto_completion
UserLists == {<<>>, <<nick_al, nick_a>>, <<nick_la>>}

\* the nick lists handed to auto_completion in SpecCompletion
CompletionLists ==
  {<<>>, <<nick_alice, nick_alicia>>, <<nick_al, nick_a>>,
   <<nick_la, nick_Al, nick_a, nick_al>>, <<nick_la>>,
   <<nick_a_l, nick_al>>, <<nick_al, nick_a, nick_a_l>>}

Widths == 2..MaxWidth

\* the characters of the body of a message
BodyChars == {"a", " ", "\n"}

\* the strings of at most n characters of chars
Strings(chars, n) == UNION {[1..k -> chars] : k \in 0..n}

(***************************************************************************)
(* Python values that are either None, a string or a boolean               *)
(* (self.clipboard, self.last_completion, a method's return value).        *)
(***************************************************************************)
None == [kind |-> "None"]
Str(s) == [kind |-> "str", val |-> s]
Bool(b) == [kind |-> "bool", val |-> b]

\* Python truthiness: None, '' and False are false
Truthy(v) ==
  CASE v.kind = "None" -> FALSE
    [] v.kind = "str" -> v.val /= <<>>
    [] v.kind = "bool" -> v.val

(***************************************************************************)
(* Python string primitives.                                               *)
(***************************************************************************)
Min(a, b) == IF a < b THEN a ELSE b
Max(a, b) == IF a > b THEN a ELSE b

\* a slice index brought into 0..n the way Python does it
SliceIndex(i, n) == IF i < 0 THEN Max(i + n, 0) ELSE Min(i, n)

\* s[a:b]
Slice(s, a, b) ==
  LET lo == SliceIndex(a, Len(s))
      hi == SliceIndex(b, Len(s))
  IN IF lo >= hi THEN <<>> ELSE SubSeq(s, lo + 1, hi)

\* s[:b] and s[a:]
Upto(s, b) == Slice(s, 0, b)
From(s, a) == Slice(s, a, Len(s))

\* s.rfind(ch): the highest 0-based index of ch in s, or -1
rfind(s, ch) ==
  LET hits == {i \in 1..Len(s) : s[i] = ch}
  IN IF hits = {} THEN -1 ELSE (CHOOSE i \in hits : \A j \in hits : j <= i) - 1

\* s.find(ch, start): the lowest 0-based index >= start of ch in s, or -1
find(s, ch, start) ==
  LET hits == {i \in 1..Len(s) : s[i] = ch /\ i - 1 >= start}
  IN IF hits = {} THEN -1 ELSE (CHOOSE i \in hits : \A j \in hits : i <= j) - 1

IsSpace(ch) == ch = " "

\* s.strip()
strip(s) ==
  LET solid == {i \in 1..Len(s) : ~IsSpace(s[i])}
  IN IF solid = {} THEN <<>>
     ELSE SubSeq(s, CHOOSE i \in solid : \A j \in solid : i <= j,
                    CHOOSE i \in solid : \A j \in solid : j <= i)

\* s.split(): the maximal runs of non-whitespace characters, in order
RECURSIVE split(_)
split(s) ==
  IF s = <<>> THEN <<>>
  ELSE IF IsSpace(s[1]) THEN split(Tail(s))
  ELSE LET stops == {i \in 1..Len(s) : IsSpace(s[i])}
           n == IF stops = {} THEN Len(s)
                ELSE (CHOOSE i \in stops : \A j \in stops : i <= j) - 1
       IN <<SubSeq(s, 1, n)>> \o split(SubSeq(s, n + 1, Len(s)))

\* ch.lower()
LowerChar(ch) == IF ch = "A" THEN "a" ELSE IF ch = "L" THEN "l" ELSE ch

\* s.lower()
lower(s) == [i \in 1..Len(s) |-> LowerChar(s[i])]

\* s.startswith(p)
startswith(s, p) == Len(p) <= Len(s) /\ SubSeq(s, 1, Len(p)) = p

\* whether l[i] exists for a Python list l, and its value (i < 0 counts from
\* the end)
InRange(l, i) == -Len(l) <= i /\ i < Len(l)
Item(l, i) == IF i < 0 THEN l[Len(l) + i + 1] ELSE l[i + 1]

\* ' ' in s
HasSpace(s) == \E i \in 1..Len(s) : s[i] = " "

\* config.get('after_completion', ',')
after_completion == <<",">>

(***************************************************************************)
(* The state of one Input object.                                          *)
(***************************************************************************)
VARIABLES
  text,             \* self.text
  pos,              \* self.pos: the cursor's column on the screen
  line_pos,         \* self.line_pos: index in text of the first displayed char
  history,          \* self.history
  histo_pos,        \* self.histo_pos
  clipboard,        \* self.clipboard: None or a string
  hit_list,         \* self.hit_list
  last_completion,  \* self.last_completion: None, a nick, True or False
  width,            \* self.width
  cursor_x,         \* the x of self.win.getyx(): where curses left its cursor
  completion,       \* config.get('completion', 'normal')
  raised,           \* the exception that left the last call, "" when none did
  ret,              \* the value the last call returned
  op,               \* the method called last
  before,           \* the object as it was before a delete_end_of_line, kept
                    \* while the call that follows it is paste_clipboard
  room,             \* the room of the text area: room.messages and room.pos
  text_win,         \* the TextWin: self.height, self.width, self.visible
  lines,            \* the lines TextWin.refresh wrote, None when the last
                    \* call was not a refresh that wrote
  g_lock,           \* the thread that holds g_lock, "" when it is free
  threads,          \* for each thread the method it runs and the number of
                    \* its curses calls and lock operations done so far
  drawn,            \* the last curses call on a window: its thread, what it
                    \* was and whether the thread held g_lock; None at first
  region,           \* a region of the screen: its class, self.height,
                    \* self.width, self.visible, self.win (None while the
                    \* attribute does not exist) and whether the last call
                    \* drew on the window; None before the region is built
  tab,              \* a DynamicConversationTab: self.name, self.nick_sent,
                    \* self.locked_resource, the messages of its text buffer
                    \* and the messages it sent
  args              \* the arguments of the last call on the tab

vars == <<text, pos, line_pos, history, histo_pos, clipboard, hit_list,
          last_completion, width, cursor_x, completion, raised, ret, op,
          before, room, text_win, lines, g_lock, threads, drawn, region,
          tab, args>>

\* the fields of the Input object and of the calls made on it
input_vars == <<text, pos, line_pos, history, histo_pos, clipboard, hit_list,
                last_completion, width, cursor_x, completion, before>>

\* the room and the text area
text_vars == <<room, text_win, lines>>

\* the lock and the threads
lock_vars == <<g_lock, threads, drawn>>

\* the conversation tab and the calls made on it
tab_vars == <<tab, args>>

\* the object as one value, the `self' the methods below work on
Self ==
  [text |-> text, pos |-> pos, line_pos |-> line_pos, history |-> history,
   histo_pos |-> histo_pos, clipboard |-> clipboard, hit_list |-> hit_list,
   last_completion |-> last_completion, width |-> width, x |-> cursor_x,
   raised |-> "", ret |-> None]

\* the logical cursor: the index in text the cursor stands on
Cursor(s) == s.pos + s.line_pos

(***************************************************************************)
(* The methods, each a function from the object before to the object after.*)
(***************************************************************************)

\* an exception leaves the method: the object stays as it was at the raise
raise(s, exception) == [s EXCEPT !.raised = exception]

\* Input.rewrite_text: erase, write the visible slice, refresh.  The write
\* leaves the curses cursor behind the last character written.
rewrite_text(s) ==
  [s EXCEPT !.x = Len(Slice(s.text, s.line_pos, s.line_pos + s.width - 1))]

\* Input.reset_completion
reset_completion(s) == [s EXCEPT !.hit_list = <<>>, !.last_completion = None]

\* Input.key_home
key_home(s) ==
  rewrite_text([reset_completion(s) EXCEPT !.pos = 0, !.line_pos = 0])

\* Input.key_end
key_end(s, reset) ==
  LET s1 == IF reset THEN reset_completion(s) ELSE s
  IN rewrite_text(
       IF Len(s1.text) >= s1.width - 1
         THEN [s1 EXCEPT !.pos = s1.width - 1,
                         !.line_pos = Len(s1.text) - (s1.width - 1)]
         ELSE [s1 EXCEPT !.pos = Len(s1.text), !.line_pos = 0])

\* Input.key_left
key_left(s) ==
  LET s1 == reset_completion(s)
  IN rewrite_text(
       IF s1.pos = s1.width - 1 /\ s1.line_pos > 0
         THEN [s1 EXCEPT !.line_pos = @ - 1]
       ELSE IF s1.pos >= 1 THEN [s1 EXCEPT !.pos = @ - 1]
       ELSE s1)

\* Input.key_right
key_right(s) ==
  LET s1 == reset_completion(s)
  IN rewrite_text(
       IF s1.pos = s1.width - 1
         THEN IF s1.line_pos + s1.width - 1 < Len(s1.text)
                THEN [s1 EXCEPT !.line_pos = @ + 1]
                ELSE s1
       ELSE IF s1.pos < Len(s1.text) THEN [s1 EXCEPT !.pos = @ + 1]
       ELSE s1)

\* Input.key_backspace
key_backspace(s, reset) ==
  LET s1 == reset_completion(s)
      c == Cursor(s1)
      s2 == key_left([s1 EXCEPT !.text = Upto(@, c - 1) \o From(@, c)])
  IN IF s1.pos = 0 THEN s1
     ELSE IF reset THEN rewrite_text(s2) ELSE s2

\* Input.key_dc
key_dc(s) ==
  LET s1 == reset_completion(s)
      c == Cursor(s1)
  IN IF c = Len(s1.text) THEN s1
     ELSE rewrite_text([s1 EXCEPT !.text = Upto(@, c) \o From(@, c + 1)])

\* `for i in range(n): self.key_left()'
RECURSIVE key_left_times(_, _)
key_left_times(s, n) == IF n <= 0 THEN s ELSE key_left_times(key_left(s), n - 1)

\* `for i in range(n): self.key_right()'
RECURSIVE key_right_times(_, _)
key_right_times(s, n) ==
  IF n <= 0 THEN s ELSE key_right_times(key_right(s), n - 1)

\* `for i in range(n): self.key_backspace(False)'
RECURSIVE key_backspace_times(_, _)
key_backspace_times(s, n) ==
  IF n <= 0 THEN s ELSE key_backspace_times(key_backspace(s, FALSE), n - 1)

\* Input.jump_word_left
jump_word_left(s) ==
  LET found == rfind(Upto(s.text, Cursor(s)), " ")
      previous_space == IF found = -1 THEN 0 ELSE found
  IN IF Len(s.text) = 0 \/ s.pos = 0 THEN s
     ELSE key_left_times(s, Cursor(s) - previous_space)

\* Input.jump_word_right
jump_word_right(s) ==
  LET found == find(s.text, " ", Cursor(s) + 1)
      next_space == IF found = -1 THEN Len(s.text) ELSE found
  IN IF Len(s.text) = Cursor(s) \/ Len(s.text) = 0 THEN s
     ELSE key_right_times(s, next_space - Cursor(s))

\* Input.delete_word
delete_word(s) ==
  LET found == rfind(Upto(s.text, Cursor(s)), " ")
      previous_space == IF found = -1 THEN 0 ELSE found
  IN IF Len(s.text) = 0 \/ s.pos = 0 THEN s
     ELSE rewrite_text(key_backspace_times(s, Cursor(s) - previous_space))

\* delete_end_of_line cutting from one character after the cursor
delete_end_of_line_off_by_one(s) ==
  IF Len(s.text) = Cursor(s) THEN s
  ELSE key_end([s EXCEPT !.clipboard = Str(From(s.text, Cursor(s) + 1)),
                         !.text = Upto(s.text, Cursor(s))], FALSE)

\* Input.delete_end_of_line
delete_end_of_line(s) ==
  IF Len(s.text) = Cursor(s) THEN s
  ELSE key_end([s EXCEPT !.clipboard = Str(From(s.text, Cursor(s))),
                         !.text = Upto(s.text, Cursor(s))], FALSE)

\* Input.delete_begining_of_line
delete_begining_of_line(s) ==
  IF Cursor(s) = 0 THEN s
  ELSE key_home([s EXCEPT !.clipboard = Str(Upto(s.text, Cursor(s))),
                          !.text = From(s.text, Cursor(s))])

\* Input.do_command for a key that is not in key_func: the character is
\* inserted at the logical cursor
do_command(s, key, reset) ==
  LET s1 == reset_completion(s)
      c == Cursor(s1)
      s2 == [s1 EXCEPT !.text = Upto(@, c) \o <<key>> \o From(@, c)]
      s3 == IF s2.x = s2.width - 1 THEN [s2 EXCEPT !.line_pos = @ + 1]
            ELSE [s2 EXCEPT !.pos = @ + 1]
  IN IF reset THEN rewrite_text(s3) ELSE s3

\* `for letter in letters: self.do_command(letter)'
RECURSIVE do_command_each(_, _)
do_command_each(s, letters) ==
  IF letters = <<>> THEN s
  ELSE do_command_each(do_command(s, Head(letters), TRUE), Tail(letters))

\* Input.paste_clipboard
paste_clipboard(s) ==
  IF ~Truthy(s.clipboard) \/ Len(s.clipboard.val) = 0 THEN s
  ELSE do_command_each(s, s.clipboard.val)

\* key_up without its `if self.histo_pos >= 0' guard
key_up_unguarded(s) ==
  IF Len(s.history) = 0 THEN s
  ELSE LET s2 == [s EXCEPT !.x = 0, !.histo_pos = @ - 1]
           i == s2.histo_pos + 1
       IN IF ~InRange(s2.history, i) THEN raise(s2, "IndexError")
          ELSE key_end([s2 EXCEPT !.text = Item(s2.history, i)], FALSE)

\* Input.key_up; win.erase() moves the curses cursor to the origin
key_up(s) ==
  IF Len(s.history) = 0 THEN s
  ELSE LET s1 == [s EXCEPT !.x = 0]
           s2 == IF s1.histo_pos >= 0 THEN [s1 EXCEPT !.histo_pos = @ - 1]
                 ELSE s1
           i == s2.histo_pos + 1
       IN IF ~InRange(s2.history, i) THEN raise(s2, "IndexError")
          ELSE key_end([s2 EXCEPT !.text = Item(s2.history, i)], FALSE)

\* Input.key_down
key_down(s) ==
  IF Len(s.history) = 0 THEN s
  ELSE LET s1 == reset_completion(s)
       IN IF s1.histo_pos < Len(s1.history) - 1
            THEN LET s2 == [s1 EXCEPT !.histo_pos = @ + 1]
                 IN IF ~InRange(s2.history, s2.histo_pos)
                      THEN raise(s2, "IndexError")
                      ELSE key_end([s2 EXCEPT !.text =
                                      Item(s2.history, s2.histo_pos)], FALSE)
            ELSE rewrite_text([s1 EXCEPT !.histo_pos = Len(s1.history) - 1,
                                         !.text = <<>>, !.pos = 0,
                                         !.line_pos = 0])

\* get_text keeping only the newest line in the history
get_text_forgets(s) ==
  LET txt == s.text
      s1 == [s EXCEPT !.text = <<>>, !.pos = 0, !.line_pos = 0]
      s2 == IF Len(txt) /= 0
              THEN [s1 EXCEPT !.history = <<txt>>, !.histo_pos = 0]
              ELSE s1
  IN [rewrite_text(s2) EXCEPT !.ret = Str(txt)]

\* get_text without its `self.line_pos = 0'
get_text_keeps_line_pos(s) ==
  LET txt == s.text
      s1 == [s EXCEPT !.text = <<>>, !.pos = 0]
      s2 == IF Len(txt) /= 0
              THEN [s1 EXCEPT !.history = Append(@, txt),
                              !.histo_pos = Len(s1.history) + 1 - 1]
              ELSE s1
  IN [rewrite_text(s2) EXCEPT !.ret = Str(txt)]

\* Input.get_text
get_text(s) ==
  LET txt == s.text
      s1 == [s EXCEPT !.text = <<>>, !.pos = 0, !.line_pos = 0]
      s2 == IF Len(txt) /= 0
              THEN [s1 EXCEPT !.history = Append(@, txt),
                              !.histo_pos = Len(s1.history) + 1 - 1]
              ELSE s1
  IN [rewrite_text(s2) EXCEPT !.ret = Str(txt)]

\* the `after' of Input.normal_completion (lines 768-773); evaluating
\* self.last_completion + ',' raises when last_completion is a boolean
normal_after(s, add_after) ==
  IF ~add_after THEN <<" ">>
  ELSE IF ~HasSpace(strip(s.text)) THEN after_completion \o <<" ">>
  ELSE IF Truthy(s.last_completion)
          /\ s.text = s.last_completion.val \o after_completion \o <<" ">>
    THEN after_completion \o <<" ">>
    ELSE <<" ">>

\* the nicks of user_list whose lower case starts with begin, in order
RECURSIVE matching(_, _)
matching(user_list, begin) ==
  IF user_list = <<>> THEN <<>>
  ELSE (IF startswith(lower(Head(user_list)), begin)
          THEN <<Head(user_list)>> ELSE <<>>)
       \o matching(Tail(user_list), begin)

\* Input.normal_completion
normal_completion(s, user_list, add_after) ==
  IF add_after /\ HasSpace(strip(s.text)) /\ Truthy(s.last_completion)
     /\ s.last_completion.kind = "bool"
    THEN raise(s, "TypeError")                               \* line 769
  ELSE
    LET after == normal_after(s, add_after)
    IN IF ~Truthy(s.last_completion)
         THEN LET begin == IF strip(s.text) /= <<>>
                             THEN lower(Item(split(s.text), -1))
                             ELSE <<>>
                  hits == matching(user_list, begin)
                  end == Len(begin)
                  nick == hits[1]
              IN IF Len(hits) = 0 THEN s
                 ELSE key_end([s EXCEPT !.hit_list = hits,
                                        !.last_completion = Str(nick),
                                        !.text = Upto(@, -end) \o nick \o after],
                              FALSE)
       ELSE IF s.last_completion.kind = "bool"
         THEN raise(s, "TypeError")                          \* line 790
       ELSE IF s.hit_list = <<>>
         THEN raise(s, "IndexError")                         \* line 791
       ELSE LET begin == Slice(s.text,
                               -Len(after) - Len(s.last_completion.val),
                               -Len(after))
                hits == Tail(s.hit_list) \o <<Head(s.hit_list)>>
                end == Len(begin) + Len(after)
                nick == hits[1]
            IN key_end([s EXCEPT !.hit_list = hits,
                                 !.last_completion = Str(nick),
                                 !.text = Upto(@, -end) \o nick \o after],
                       FALSE)

\* the while loop without its `if end: nick = nick[:-1]'
RECURSIVE common_prefix_keeps_mismatch(_, _)
common_prefix_keeps_mismatch(hits, nick) ==
  IF Len(nick) < Len(hits[1])
    THEN LET longer == Upto(hits[1], Len(nick) + 1)
         IN IF \E i \in 1..Len(hits) :
                  ~startswith(lower(hits[i]), lower(longer))
              THEN longer
              ELSE common_prefix_keeps_mismatch(hits, longer)
    ELSE nick

\* the while loop of Input.shell_completion (lines 831-838): the longest
\* prefix of hits[1] that every hit starts with, ignoring case
RECURSIVE common_prefix(_, _)
common_prefix(hits, nick) ==
  IF Len(nick) < Len(hits[1])
    THEN LET longer == Upto(hits[1], Len(nick) + 1)
         IN IF \E i \in 1..Len(hits) :
                  ~startswith(lower(hits[i]), lower(longer))
              THEN Upto(longer, -1)
              ELSE common_prefix(hits, longer)
    ELSE nick

\* the nick + after of the last hit that equals begin ignoring case, '' when
\* there is none (lines 826-829)
RECURSIVE exact_hit(_, _, _)
exact_hit(hits, begin, after) ==
  IF hits = <<>> THEN <<>>
  ELSE LET later == exact_hit(Tail(hits), begin, after)
       IN IF later /= <<>> THEN later
          ELSE IF lower(begin) = lower(Head(hits)) THEN Head(hits) \o after
          ELSE <<>>

\* Input.shell_completion
shell_completion(s, user_list, add_after) ==
  LET after == IF HasSpace(strip(s.text)) \/ ~add_after THEN <<" ">>
               ELSE after_completion \o <<" ">>
  IN IF s.text /= <<>> /\ split(s.text) = <<>>
       THEN raise(s, "IndexError")                           \* line 809
     ELSE
       LET begin == IF s.text /= <<>> THEN lower(Item(split(s.text), -1))
                    ELSE <<>>
           hits == matching(user_list, begin)
           confirmed == IF Len(hits) = 1 THEN hits[1] \o after
                        ELSE IF Truthy(s.last_completion)
                          THEN exact_hit(hits, begin, after)
                        ELSE <<>>
           nick == IF confirmed = <<>> THEN common_prefix(hits, <<>>)
                   ELSE confirmed
       IN IF Len(hits) = 0 THEN s
          ELSE key_end([s EXCEPT !.last_completion = Bool(confirmed = <<>>),
                                 !.text = Upto(@, -Len(begin)) \o nick],
                       FALSE)

\* auto_completion without its test of the cursor
auto_completion_anywhere(s, user_list, add_after, completion_type) ==
  IF completion_type = "shell" /\ s.text /= <<>>
    THEN shell_completion(s, user_list, add_after)
    ELSE normal_completion(s, user_list, add_after)

\* Input.auto_completion
auto_completion(s, user_list, add_after, completion_type) ==
  IF Cursor(s) /= Len(s.text) THEN s
  ELSE IF completion_type = "shell" /\ s.text /= <<>>
    THEN shell_completion(s, user_list, add_after)
    ELSE normal_completion(s, user_list, add_after)


(***************************************************************************)
(* The text area: TextWin.build_lines_from_messages and TextWin.refresh.   *)
(* A message is a body and a nickname (None in a notice); None among the   *)
(* messages is the separator of the new messages.                          *)
(***************************************************************************)
Message(txt, nickname) ==
  [kind |-> "Message", txt |-> txt, nickname |-> nickname]

\* message.Line: the fields of a line that depend on the wrapping
Line(nickname, time, txt, text_offset) ==
  [kind |-> "Line", nickname |-> nickname, time |-> time, text |-> txt,
   text_offset |-> text_offset]

\* the delimiters of the time in the theme
CHAR_TIME_LEFT == <<>>
CHAR_TIME_RIGHT == <<>>

\* the length of the time (line 362)
time_offset == 9 + Len(Upto(CHAR_TIME_LEFT, 1)) + Len(Upto(CHAR_TIME_RIGHT, 1))

\* the nick shown (lines 363-366): the first 30 characters and an ellipsis
\* when the nickname has 30 characters or more
shown_nick(nickname) ==
  IF Truthy(nickname) /\ Len(nickname.val) >= 30
    THEN Str(Upto(nickname.val, 30) \o <<"...">>)
    ELSE nickname

\* the offset of the body of a message (lines 362-368)
text_offset(nickname) ==
  IF Truthy(shown_nick(nickname))
    THEN time_offset + Len(shown_nick(nickname).val) + 2
    ELSE time_offset

\* the value of a call that comes back with the lines l, and of one that
\* never comes back, having built the lines l
Returns(l) == [lines |-> l, returns |-> TRUE]
Loops(l) == [lines |-> l, returns |-> FALSE]

\* the while loop jumping a character after every break, whatever the break
RECURSIVE wrap_always_jumps(_, _, _, _, _, _)
wrap_always_jumps(txt, available, broken, first, nick, offset) ==
  IF txt = <<>> THEN Returns(<<>>)
  ELSE
    LET newline == find(Upto(txt, available), "\n", 0)
        space == rfind(Upto(txt, available), " ")
        limit == IF newline /= -1 THEN newline
                 ELSE IF Len(txt) >= available
                   THEN (IF space <= 0 THEN available ELSE space)
                   ELSE available - 1
        by_space == IF newline /= -1 THEN broken
                    ELSE Len(txt) >= available /\ space > 0
        l == Line(IF first THEN nick ELSE None,
                  IF first THEN Str(<<"time">>) ELSE None,
                  Upto(txt, limit), offset)
        cut == From(txt, limit + 1)
        left == IF startswith(cut, <<"\n">>) THEN From(cut, 1) ELSE cut
    IN IF left = txt /\ by_space = broken THEN Loops(<<l>>)
       ELSE LET more == wrap_always_jumps(left, available, by_space, FALSE,
                                          nick, offset)
            IN [more EXCEPT !.lines = <<l>> \o @]

\* the while loop without its `if not first: nick = None; time = None'
RECURSIVE wrap_repeats_nick(_, _, _, _, _, _)
wrap_repeats_nick(txt, available, broken, first, nick, offset) ==
  IF txt = <<>> THEN Returns(<<>>)
  ELSE
    LET newline == find(Upto(txt, available), "\n", 0)
        space == rfind(Upto(txt, available), " ")
        limit == IF newline /= -1 THEN newline
                 ELSE IF Len(txt) >= available
                   THEN (IF space <= 0 THEN available ELSE space)
                   ELSE available - 1
        by_space == IF newline /= -1 THEN broken
                    ELSE Len(txt) >= available /\ space > 0
        l == Line(nick, Str(<<"time">>), Upto(txt, limit), offset)
        cut == IF by_space THEN From(txt, limit + 1) ELSE From(txt, limit)
        left == IF startswith(cut, <<"\n">>) THEN From(cut, 1) ELSE cut
    IN IF left = txt /\ by_space = broken THEN Loops(<<l>>)
       ELSE LET more == wrap_repeats_nick(left, available, by_space, FALSE,
                                          nick, offset)
            IN [more EXCEPT !.lines = <<l>> \o @]

\* the while loop without its search of a newline in the characters that fit
RECURSIVE wrap_past_newline(_, _, _, _, _, _)
wrap_past_newline(txt, available, broken, first, nick, offset) ==
  IF txt = <<>> THEN Returns(<<>>)
  ELSE
    LET space == rfind(Upto(txt, available), " ")
        limit == IF Len(txt) >= available
                   THEN (IF space <= 0 THEN available ELSE space)
                   ELSE available - 1
        by_space == Len(txt) >= available /\ space > 0
        l == Line(IF first THEN nick ELSE None,
                  IF first THEN Str(<<"time">>) ELSE None,
                  Upto(txt, limit), offset)
        cut == IF by_space THEN From(txt, limit + 1) ELSE From(txt, limit)
        left == IF startswith(cut, <<"\n">>) THEN From(cut, 1) ELSE cut
    IN IF left = txt /\ by_space = broken THEN Loops(<<l>>)
       ELSE LET more == wrap_past_newline(left, available, by_space, FALSE,
                                          nick, offset)
            IN [more EXCEPT !.lines = <<l>> \o @]

\* the while loop of build_lines_from_messages (lines 371-403) from the
\* iteration that starts with txt left, available characters and
\* this_line_was_broken_by_space = broken.  An iteration is decided by txt
\* and broken alone: one that changes neither is repeated for ever.
RECURSIVE wrap(_, _, _, _, _, _)
wrap(txt, available, broken, first, nick, offset) ==
  IF txt = <<>> THEN Returns(<<>>)
  ELSE
    LET newline == find(Upto(txt, available), "\n", 0)
        space == rfind(Upto(txt, available), " ")
        limit == IF newline /= -1 THEN newline
                 ELSE IF Len(txt) >= available
                   THEN (IF space <= 0 THEN available ELSE space)
                   ELSE available - 1
        by_space == IF newline /= -1 THEN broken
                    ELSE Len(txt) >= available /\ space > 0
        l == Line(IF first THEN nick ELSE None,
                  IF first THEN Str(<<"time">>) ELSE None,
                  Upto(txt, limit), offset)
        cut == IF by_space THEN From(txt, limit + 1) ELSE From(txt, limit)
        left == IF startswith(cut, <<"\n">>) THEN From(cut, 1) ELSE cut
    IN IF left = txt /\ by_space = broken THEN Loops(<<l>>)
       ELSE LET more == wrap(left, available, by_space, FALSE, nick, offset)
            IN [more EXCEPT !.lines = <<l>> \o @]

\* TextWin.build_lines_from_messages in a window of width w
RECURSIVE build_lines_from_messages(_, _)
build_lines_from_messages(messages, w) ==
  IF messages = <<>> THEN Returns(<<>>)
  ELSE
    LET message == Head(messages)
        these ==
          IF message = None THEN Returns(<<None>>)
          ELSE IF message.txt = <<>> THEN Returns(<<>>)
          ELSE wrap(message.txt, w - text_offset(message.nickname), FALSE,
                    TRUE, shown_nick(message.nickname),
                    text_offset(message.nickname))
    IN IF ~these.returns THEN these
       ELSE LET others == build_lines_from_messages(Tail(messages), w)
            IN [others EXCEPT !.lines = these.lines \o @]

\* the clamp without its `if room.pos < 0: room.pos = 0'
clamp_without_floor(p, h, total) == IF p + h > total THEN total - h ELSE p

\* the scroll offset TextWin.refresh leaves in room.pos (lines 419-422), with
\* total lines in a window of height h
clamp(p, h, total) == IF p + h > total THEN Max(total - h, 0) ELSE p

\* the window counted from the oldest line instead of the newest
window_from_top(l, p, h) == IF p /= 0 THEN Slice(l, p, p + h) ELSE From(l, -h)

\* the lines TextWin.refresh writes (lines 423-426)
window(l, p, h) == IF p /= 0 THEN Slice(l, -h - p, -p) ELSE From(l, -h)

\* TextWin.refresh without the test of the height (lines 414-415)
refresh_any_height(w, r) ==
  IF ~w.visible
    THEN [room |-> r, lines |-> None, returns |-> TRUE]
  ELSE
    LET built == build_lines_from_messages(r.messages, w.width)
        p == clamp(r.pos, w.height, Len(built.lines))
    IN IF ~built.returns THEN [room |-> r, lines |-> None, returns |-> FALSE]
       ELSE [room |-> [r EXCEPT !.pos = p],
             lines |-> Str(window(built.lines, p, w.height)),
             returns |-> TRUE]

\* TextWin.refresh: the room, the lines written (None when it writes
\* nothing) and whether the call comes back
refresh(w, r) ==
  IF ~w.visible \/ w.height <= 0
    THEN [room |-> r, lines |-> None, returns |-> TRUE]
  ELSE
    LET built == build_lines_from_messages(r.messages, w.width)
        p == clamp(r.pos, w.height, Len(built.lines))
    IN IF ~built.returns THEN [room |-> r, lines |-> None, returns |-> FALSE]
       ELSE [room |-> [r EXCEPT !.pos = p],
             lines |-> Str(window(built.lines, p, w.height)),
             returns |-> TRUE]

\* TextWin.resize: Win._resize leaves the geometry alone when not visible
resize(w, height, wd, visible) ==
  IF visible THEN [height |-> height, width |-> wd, visible |-> TRUE]
  ELSE [w EXCEPT !.visible = FALSE]

(***************************************************************************)
(* The lock: the curses calls and the lock operations of the methods that   *)
(* draw, in the order the method makes them.  "erase", "write" and "flush" *)
(* are calls on the window (erase or clear; addstr, addnstr or vline;      *)
(* refresh), "newwin" creates it.                                          *)
(***************************************************************************)
\* the thread that reads the keyboard and the thread that handles the events
\* of the connection
Threads == {"input", "event"}

\* a thread that runs no method
Idle == [method |-> "", at |-> 0]

\* `with g_lock:' around erase, the writes and win.refresh(): refresh of
\* UserList, Topic, GlobalInfoBar, the InfoWins, TextWin, RosterWin and
\* ContactInfoWin, and Input.rewrite_text
locked_render == <<"acquire", "erase", "write", "flush", "release">>

\* what each method does to the lock and to the window
Program(method) ==
  CASE method = "refresh" -> locked_render
    [] method = "Input.rewrite_text" -> locked_render
    [] method = "Input.key_up" -> <<"erase">> \o locked_render
    [] method = "Input.resize" -> <<"newwin", "erase", "write">>
    [] method = "UserList.resize" -> <<"newwin", "write">>
    [] method = "VerticalSeparator.rewrite_line" ->
         <<"acquire", "write", "flush", "release">>
    \* a refresh in which a write on self.win raises (the addstr of
    \* draw_roster_information on a window too narrow for its text): the
    \* exception leaves the `with' block, which gives the lock back
    [] method = "RosterWin.refresh" ->
         <<"acquire", "erase", "write", "release">>
    \* a refresh of the text area on a window whose width leaves no column
    \* to the body of a message: the loop of build_lines_from_messages,
    \* called inside the `with' block, does not end
    [] method = "TextWin.refresh" -> <<"acquire", "erase", "loop">>

Methods ==
  {"refresh", "Input.rewrite_text", "Input.key_up", "Input.resize",
   "UserList.resize", "VerticalSeparator.rewrite_line", "RosterWin.refresh",
   "TextWin.refresh"}

\* the calls that change what a window shows
Draws == {"erase", "write", "flush"}

(***************************************************************************)
(* The regions of the screen: Win and its subclasses, their construction,  *)
(* resize and refresh.  A curses window is its height and width.            *)
(***************************************************************************)
\* the classes whose resize is Win._resize alone
InfoBars ==
  {"Topic", "GlobalInfoBar", "PrivateInfoWin", "ConversationInfoWin",
   "MucInfoWin"}

Classes ==
  InfoBars \cup {"UserList", "TextWin", "Input", "VerticalSeparator",
                 "RosterWin", "ContactInfoWin"}

\* the geometries a region is given
Heights == {0, 1, 2, 5}
RegionWidths == {0, 4, 12}

\* a curses window
Window(height, wd) == [kind |-> "window", height |-> height, width |-> wd]

\* whether curses.newwin(height, wd, y, x) raises: it does for a geometry that
\* has no line or no column
Degenerate(height, wd) == height < 1 \/ wd < 1

\* whether win.addstr(y, x, str) with a str of n characters raises: it does when
\* (y, x) is outside the window and when the text reaches the last cell
AddstrRaises(win, y, x, n) ==
  \/ y < 0 \/ y >= win.height
  \/ x < 0 \/ x >= win.width
  \/ (win.height - y) * win.width - x <= n

\* Win._resize: the geometry is stored, then the window is created; when
\* newwin raises the window stays the one it was
Win_resize(r, height, wd, visible) ==
  IF ~visible THEN r
  ELSE [r EXCEPT !.height = height, !.width = wd,
                 !.win = IF Degenerate(height, wd) THEN @
                         ELSE Window(height, wd)]

\* a call on self.win that draws: AttributeError while there is no self.win
on_win(r) ==
  IF r.win = None THEN raise(r, "AttributeError")
  ELSE [r EXCEPT !.painted = TRUE]

\* the object Win.__init__ and the __init__ of the class leave
construct(class, height, wd, visible) ==
  LET fresh == [kind |-> "region", class |-> class, height |-> 0,
                width |-> 0, visible |-> visible, win |-> None,
                raised |-> "", painted |-> FALSE]
      built == [Win_resize(fresh, height, wd, TRUE) EXCEPT !.visible = visible]
  IN IF class = "RosterWin"
       THEN [kind |-> "region", class |-> class, height |-> built.height,
             width |-> built.width, visible |-> visible, win |-> built.win,
             raised |-> "", painted |-> FALSE,
             pos |-> 0, start_pos |-> 1, roster_len |-> 0]
       ELSE built

\* the resize of each class
region_resize(r, height, wd, visible) ==
  LET s == [r EXCEPT !.painted = FALSE]
  IN CASE s.class \in InfoBars -> Win_resize(s, height, wd, visible)
       [] s.class \in {"TextWin", "VerticalSeparator"} ->
            Win_resize([s EXCEPT !.visible = visible], height, wd, visible)
       [] s.class \in {"RosterWin", "ContactInfoWin"} ->
            [Win_resize(s, height, wd, visible) EXCEPT !.visible = visible]
       [] s.class \in {"UserList", "Input"} ->
            IF ~visible THEN [s EXCEPT !.visible = FALSE]
            ELSE on_win(Win_resize([s EXCEPT !.visible = TRUE],
                                   height, wd, visible))

\* the roster: one group, folded or not, of some contacts; len(roster) is the
\* number of its lines
Rosters == [folded : BOOLEAN, contacts : 0..MaxContacts]
roster_len(roster) == IF roster.folded THEN 1 ELSE 1 + roster.contacts

\* the text of draw_roster_information: '%s contacts', and a contact's name
contacts_text(roster) == IF roster.contacts < 10 THEN 10 ELSE 11
display_name == 1

\* RosterWin.draw_contact_line on line y: two addstr on self.win
draw_contact_line(r, y) ==
  IF AddstrRaises(r.win, y, 1, 1) \/ AddstrRaises(r.win, y, 4, display_name)
    THEN raise(r, "curses.error")
    ELSE r

\* RosterWin.draw_plus
draw_plus(r, y) ==
  IF AddstrRaises(r.win, y, r.width - 5, 4) THEN raise(r, "curses.error")
  ELSE r

\* the loop over the contacts of a group in RosterWin.refresh (lines
\* 976-983), from line y with `left' contacts to draw
RECURSIVE draw_contacts(_, _, _)
draw_contacts(r, y, left) ==
  IF left = 0 \/ r.raised /= "" THEN r
  ELSE IF y - r.start_pos + 1 = r.height THEN r
  ELSE draw_contacts(IF y >= r.start_pos
                       THEN draw_contact_line(r, y - r.start_pos + 1)
                       ELSE r,
                     y + 1, left - 1)

\* RosterWin.refresh of a visible region
roster_refresh(r, roster) ==
  LET s == [r EXCEPT !.roster_len = roster_len(roster)]
      erased == on_win(s)
      information ==
        IF erased.raised /= "" THEN erased
        ELSE IF AddstrRaises(s.win, 0, 0, contacts_text(roster))
          THEN raise(erased, "curses.error") ELSE erased
      contacts == IF roster.folded THEN information
                  ELSE draw_contacts(information, 2, roster.contacts)
      above == IF contacts.raised = "" /\ s.start_pos > 1
                 THEN draw_plus(contacts, 1) ELSE contacts
      below == IF above.raised = ""
                  /\ s.start_pos + s.height - 2 < s.roster_len
                 THEN draw_plus(above, s.height - 1) ELSE above
  IN below

\* RosterWin.scroll_down and scroll_up
scroll_down(r) == [r EXCEPT !.start_pos = @ + 8]
scroll_up(r) == [r EXCEPT !.start_pos = @ - 8]

\* RosterWin.move_cursor_down
move_cursor_down(r) ==
  LET s == IF r.pos < r.roster_len - 1 THEN [r EXCEPT !.pos = @ + 1] ELSE r
  IN IF s.pos = s.start_pos - 1 + s.height - 1 THEN scroll_down(s) ELSE s

\* RosterWin.move_cursor_up
move_cursor_up(r) ==
  LET s == IF r.pos > 0 THEN [r EXCEPT !.pos = @ - 1] ELSE r
  IN IF s.pos = s.start_pos - 2 THEN scroll_up(s) ELSE s

\* TextWin.refresh after its erase, with n derived lines: win.move(y, 0) for
\* each line shown
text_refresh(r, n) ==
  IF Min(n, r.height) > r.win.height THEN raise(r, "curses.error") ELSE r

\* the refresh of each class
region_refresh(r, n, roster) ==
  LET s == [r EXCEPT !.painted = FALSE]
  IN IF ~s.visible THEN s
     ELSE IF s.class = "TextWin" /\ s.height <= 0 THEN s
     ELSE IF s.class = "RosterWin" THEN roster_refresh(s, roster)
     ELSE IF s.win = None THEN raise(s, "AttributeError")
     ELSE IF s.class = "TextWin" THEN text_refresh(on_win(s), n)
     ELSE on_win(s)

(***************************************************************************)
(* The conversation tab: ConversationTab.command_say and the lock of a      *)
(* DynamicConversationTab on a resource.  A message of the text buffer is   *)
(* its type, the format of its text and the arguments of the format.        *)
(***************************************************************************)
\* the bare jid of the contact, self.core.own_nick, the lines the user says,
\* the resources of the contact and the `from_' of an unlock
Name == <<"j">>
own_nick == Str(<<"n">>)
Bodies == Strings({"a"}, 1)
Resources == {<<>>, <<"r">>, <<"s">>}
Froms == {None, Str(<<"j", "/", "s">>)}

\* what the handlers of an event do to the message: nothing, or empty its
\* body
Handlers == {"none", "empties"}
trigger(msg, handler) ==
  IF handler = "empties" THEN [msg EXCEPT !.body = <<>>] ELSE msg

\* self.add_message(message, typ=0) and the message said, typ=1
info(format, arguments) ==
  [typ |-> 0, format |-> format, arguments |-> arguments]
said(body) == [typ |-> 1, format |-> "%s", arguments |-> <<body>>]

\* DynamicConversationTab.get_dest_jid
get_dest_jid(t) ==
  IF Truthy(t.locked_resource)
    THEN Str(t.name \o <<"/">> \o t.locked_resource.val)
    ELSE Str(t.name)

\* ConversationTab.command_say, correct being false and the body without
\* colours: the handlers of conversation_say and of conversation_say_after
\* get the message in turn
command_say(t, line, handler, handler_after) ==
  LET msg == [to |-> get_dest_jid(t), type |-> "chat", body |-> line,
              nick |-> IF ~t.nick_sent THEN own_nick ELSE None]
      s == [t EXCEPT !.nick_sent = TRUE]
      first == trigger(msg, handler)
      second == trigger(first, handler_after)
  IN IF first.body = <<>> THEN s
     ELSE IF second.body = <<>> THEN s
     ELSE [s EXCEPT !.buffer = Append(@, said(second.body)),
                    !.sent = Append(@, second)]

\* DynamicConversationTab.lock that adds its message whatever the resource
lock_always_reports(t, resource) ==
  IF resource = <<>> THEN raise(t, "AssertionError")
  ELSE [t EXCEPT !.locked_resource = Str(resource),
                 !.buffer = Append(@, info("Conversation locked to %s/%s.",
                                           <<t.name, resource>>))]

\* DynamicConversationTab.lock
lock(t, resource) ==
  IF resource = <<>> THEN raise(t, "AssertionError")
  ELSE IF Str(resource) /= t.locked_resource
    THEN [t EXCEPT !.locked_resource = Str(resource),
                   !.buffer = Append(@, info("Conversation locked to %s/%s.",
                                             <<t.name, resource>>))]
  ELSE t

\* DynamicConversationTab.unlock
unlock(t, from_) ==
  IF t.locked_resource /= None
    THEN [t EXCEPT
            !.locked_resource = None,
            !.buffer = Append(@,
              IF Truthy(from_)
                THEN info("Conversation unlocked (received activity from %s).",
                          <<from_.val>>)
                ELSE info("Conversation unlocked.", <<>>))]
  ELSE t

(***************************************************************************)
(* The state machine: one action per key of Input.key_func, one for the    *)
(* keys that are inserted and one for the completion key.  Each action     *)
(* takes the longest text n it may build.                                  *)
(***************************************************************************)

\* Input.__init__, in a window of some width and under some configuration
Init ==
  /\ text = <<>>
  /\ pos = 0
  /\ line_pos = 0
  /\ history = <<>>
  /\ histo_pos = 0
  /\ clipboard = None
  /\ hit_list = <<>>
  /\ last_completion = None
  /\ width \in Widths
  /\ cursor_x = 0
  /\ completion \in {"normal", "shell"}
  /\ raised = ""
  /\ ret = None
  /\ op = "__init__"
  /\ before = None
  /\ room = [messages |-> <<>>, pos |-> 0]
  /\ text_win = [height |-> MaxHeight, width |-> time_offset + 1,
                 visible |-> TRUE]
  /\ lines = None
  /\ g_lock = ""
  /\ threads = [t \in Threads |-> Idle]
  /\ drawn = None
  /\ region = None
  /\ tab = [name |-> Name, nick_sent |-> FALSE, locked_resource |-> None,
            buffer |-> <<>>, sent |-> <<>>, raised |-> ""]
  /\ args = None

\* the object of a client configured for the normal completion
InitNormal == Init /\ completion = "normal"

\* the call `name' took the object to s and left `saved' as the object before
\* the kill it belongs to.  An exception ends the program: nothing is called
\* after it.
Call(name, s, saved, n) ==
  /\ raised = ""
  /\ Len(s.text) <= n
  /\ text' = s.text
  /\ pos' = s.pos
  /\ line_pos' = s.line_pos
  /\ history' = s.history
  /\ histo_pos' = s.histo_pos
  /\ clipboard' = s.clipboard
  /\ hit_list' = s.hit_list
  /\ last_completion' = s.last_completion
  /\ cursor_x' = s.x
  /\ raised' = s.raised
  /\ ret' = s.ret
  /\ op' = name
  /\ before' = saved
  /\ UNCHANGED <<width, completion>>
  /\ UNCHANGED text_vars
  /\ UNCHANGED lock_vars
  /\ UNCHANGED region
  /\ UNCHANGED tab_vars

\* a printable key: do_command falls through to the insertion
Insert(keys, n) ==
  \E key \in keys : Call("do_command", do_command(Self, key, TRUE), None, n)

KeyLeft(n) == Call("key_left", key_left(Self), None, n)

KeyRight(n) == Call("key_right", key_right(Self), None, n)

\* KEY_HOME and ^A: key_func calls key_home()
KeyHome(n) == Call("key_home", key_home(Self), None, n)

\* KEY_END and ^E: key_func calls key_end(), reset defaults to False
KeyEnd(n) == Call("key_end", key_end(Self, FALSE), None, n)

\* KEY_BACKSPACE and ^?: key_func calls key_backspace(), reset defaults to True
KeyBackspace(n) == Call("key_backspace", key_backspace(Self, TRUE), None, n)

KeyDc(n) == Call("key_dc", key_dc(Self), None, n)

JumpWordLeft(n) == Call("jump_word_left", jump_word_left(Self), None, n)

JumpWordRight(n) == Call("jump_word_right", jump_word_right(Self), None, n)

DeleteWord(n) == Call("delete_word", delete_word(Self), None, n)

DeleteEndOfLine(n) ==
  Call("delete_end_of_line", delete_end_of_line(Self),
       [kind |-> "Input", text |-> text, cursor |-> pos + line_pos,
        clipboard |-> clipboard], n)

DeleteBeginingOfLine(n) ==
  Call("delete_begining_of_line", delete_begining_of_line(Self), None, n)

PasteClipboard(n) ==
  Call("paste_clipboard", paste_clipboard(Self),
       IF op = "delete_end_of_line" THEN before ELSE None, n)

KeyUp(n) == Call("key_up", key_up(Self), None, n)

KeyDown(n) == Call("key_down", key_down(Self), None, n)

\* ^J and Enter; at most `most' lines are submitted
GetText(n, most) ==
  /\ text = <<>> \/ Len(history) < most
  /\ Call("get_text", get_text(Self), None, n)

\* the completion key, with the nicks of the room
AutoCompletion(lists, n) ==
  \E user_list \in lists, add_after \in BOOLEAN :
    Call("auto_completion",
         auto_completion(Self, user_list, add_after, completion), None, n)

\* a call on the text area: it left the room r, the window w and wrote l (None
\* when it wrote nothing); returned is false when the call never comes back.
\* Nothing is called after a call that does not come back.
NoReturn == [kind |-> "NoReturn"]

TextCall(name, r, w, l, returned) ==
  /\ raised = ""
  /\ ret /= NoReturn
  /\ room' = r
  /\ text_win' = w
  /\ lines' = l
  /\ op' = name
  /\ ret' = IF returned THEN None ELSE NoReturn
  /\ UNCHANGED raised
  /\ UNCHANGED input_vars
  /\ UNCHANGED lock_vars
  /\ UNCHANGED region
  /\ UNCHANGED tab_vars

\* the nicknames of the messages: none (a notice) or a nick
Nicknames == {None, Str(<<"n">>)}

\* the widths of the text area: the body of a message with a nick gets from
\* -4 to MaxAvailable characters, the body of a notice three more
TextWidths == (time_offset - 1)..(time_offset + 3 + MaxAvailable)

\* the room receives a message or the separator of the new messages; it holds
\* at most `most' of them
Receive(bodies, nicknames, most) ==
  /\ Len(room.messages) < most
  /\ \E message \in {Message(txt, nickname) :
                        txt \in bodies, nickname \in nicknames} \cup {None} :
       TextCall("add_message",
                [room EXCEPT !.messages = Append(@, message)],
                text_win, None, TRUE)

\* the user scrolls the room
Scroll(most) ==
  \E p \in 0..most :
    TextCall("scroll", [room EXCEPT !.pos = p], text_win, None, TRUE)

\* TextWin.resize
ResizeTextWin(heights, widths) ==
  \E height \in heights, wd \in widths, visible \in BOOLEAN :
    TextCall("TextWin.resize", room, resize(text_win, height, wd, visible),
             None, TRUE)

\* TextWin.refresh
RefreshTextWin ==
  LET done == refresh(text_win, room)
  IN TextCall("TextWin.refresh", done.room, text_win, done.lines,
              done.returns)

\* a thread starts a method
Enter(t, method) ==
  /\ threads[t] = Idle
  /\ threads' = [threads EXCEPT ![t] = [method |-> method, at |-> 0]]
  /\ UNCHANGED <<g_lock, drawn>>
  /\ UNCHANGED <<raised, ret, op>>
  /\ UNCHANGED input_vars
  /\ UNCHANGED text_vars
  /\ UNCHANGED region
  /\ UNCHANGED tab_vars

\* a thread makes the next call of its method: it takes g_lock when it is
\* free (and waits while it is not), gives it back, or calls curses; the
\* method returns after its last call, and a thread in a loop that does not
\* end makes no other call
Step(t) ==
  LET program == Program(threads[t].method)
      call == program[threads[t].at + 1]
  IN /\ threads[t] /= Idle
     /\ call /= "loop"
     /\ call = "acquire" => g_lock = ""
     /\ g_lock' = IF call = "acquire" THEN t
                  ELSE IF call = "release" THEN "" ELSE g_lock
     /\ drawn' = IF call \in {"acquire", "release"} THEN drawn
                 ELSE [kind |-> "call", thread |-> t, call |-> call,
                       locked |-> g_lock = t]
     /\ threads' = [threads EXCEPT ![t] =
                      IF threads[t].at + 1 = Len(program) THEN Idle
                      ELSE [@ EXCEPT !.at = @ + 1]]
     /\ UNCHANGED <<raised, ret, op>>
     /\ UNCHANGED input_vars
     /\ UNCHANGED text_vars
     /\ UNCHANGED region
     /\ UNCHANGED tab_vars

\* a call on a region: it leaves the region r
RegionCall(name, r) ==
  /\ raised = ""
  /\ region' = [r EXCEPT !.raised = ""]
  /\ raised' = r.raised
  /\ op' = name
  /\ ret' = None
  /\ UNCHANGED input_vars
  /\ UNCHANGED text_vars
  /\ UNCHANGED lock_vars
  /\ UNCHANGED tab_vars

\* the region is built
Construct ==
  /\ region = None
  /\ \E class \in Classes, height \in Heights, wd \in RegionWidths,
        visible \in BOOLEAN :
       RegionCall("__init__", construct(class, height, wd, visible))

\* the resize of the region
Resize ==
  /\ region /= None
  /\ \E height \in Heights, wd \in RegionWidths, visible \in BOOLEAN :
       RegionCall("resize", region_resize(region, height, wd, visible))

\* the refresh of the region, with the lines of the room and the roster
Refresh ==
  /\ region /= None
  /\ \E n \in 0..MaxHeight, roster \in Rosters :
       RegionCall("refresh", region_refresh(region, n, roster))

\* the roster window is built, three lines high or more
ConstructRoster ==
  /\ region = None
  /\ \E height \in 3..MaxRosterHeight, wd \in RegionWidths,
        visible \in BOOLEAN :
       RegionCall("__init__", construct("RosterWin", height, wd, visible))

\* the refresh of the roster window, the roster keeping its length from one
\* refresh to the next
RefreshRoster ==
  /\ region /= None
  /\ \E roster \in Rosters :
       /\ region.roster_len \in {0, roster_len(roster)}
       /\ RegionCall("refresh", region_refresh(region, 0, roster))

\* the cursor keys of the roster
MoveCursorDown ==
  /\ region /= None
  /\ RegionCall("move_cursor_down", move_cursor_down(region))

MoveCursorUp ==
  /\ region /= None
  /\ RegionCall("move_cursor_up", move_cursor_up(region))

\* a call on the tab: it leaves the tab s and returns returned
TabCall(name, arguments, s, returned) ==
  /\ raised = ""
  /\ Len(s.buffer) <= MaxBuffer
  /\ tab' = [s EXCEPT !.raised = ""]
  /\ args' = arguments
  /\ raised' = s.raised
  /\ op' = name
  /\ ret' = returned
  /\ UNCHANGED input_vars
  /\ UNCHANGED text_vars
  /\ UNCHANGED lock_vars
  /\ UNCHANGED region

CommandSay ==
  \E line \in Bodies, handler \in Handlers, handler_after \in Handlers :
    TabCall("command_say",
            [line |-> line, handler |-> handler,
             handler_after |-> handler_after],
            command_say(tab, line, handler, handler_after), None)

Lock ==
  \E resource \in Resources :
    TabCall("lock", [resource |-> resource], lock(tab, resource), None)

Unlock ==
  \E from_ \in Froms :
    TabCall("unlock", [from_ |-> from_], unlock(tab, from_), None)

GetDestJid == TabCall("get_dest_jid", None, tab, get_dest_jid(tab))

\* every key
Next ==
  \/ Insert(Keys, MaxLen)
  \/ KeyLeft(MaxLen)
  \/ KeyRight(MaxLen)
  \/ KeyHome(MaxLen)
  \/ KeyEnd(MaxLen)
  \/ KeyBackspace(MaxLen)
  \/ KeyDc(MaxLen)
  \/ JumpWordLeft(MaxLen)
  \/ JumpWordRight(MaxLen)
  \/ DeleteWord(MaxLen)
  \/ DeleteEndOfLine(MaxLen)
  \/ DeleteBeginingOfLine(MaxLen)
  \/ PasteClipboard(MaxLen)
  \/ KeyUp(MaxLen)
  \/ KeyDown(MaxLen)
  \/ GetText(MaxLen, MaxSubmit)
  \/ AutoCompletion(UserLists, MaxLen)

Spec == Init /\ [][Next]_vars

\* the editing keys: no history, no completion
NextEdit ==
  \/ Insert(Keys, MaxEditLen)
  \/ KeyLeft(MaxEditLen)
  \/ KeyRight(MaxEditLen)
  \/ KeyHome(MaxEditLen)
  \/ KeyEnd(MaxEditLen)
  \/ KeyBackspace(MaxEditLen)
  \/ KeyDc(MaxEditLen)
  \/ JumpWordLeft(MaxEditLen)
  \/ JumpWordRight(MaxEditLen)
  \/ DeleteWord(MaxEditLen)
  \/ DeleteEndOfLine(MaxEditLen)
  \/ DeleteBeginingOfLine(MaxEditLen)
  \/ PasteClipboard(MaxEditLen)

SpecEdit == InitNormal /\ [][NextEdit]_vars

\* typing and the history keys; the lines differ by their length
NextHistory ==
  \/ Insert({"a"}, MaxLineLen)
  \/ KeyLeft(MaxLineLen)
  \/ KeyBackspace(MaxLineLen)
  \/ KeyUp(MaxLineLen)
  \/ KeyDown(MaxLineLen)
  \/ GetText(MaxLineLen, MaxHist)

SpecHistory == InitNormal /\ [][NextHistory]_vars

\* typing and completing
NextCompletion ==
  \/ Insert(CompletionKeys, MaxCompletionLen)
  \/ KeyLeft(MaxCompletionLen)
  \/ KeyBackspace(MaxCompletionLen)
  \/ AutoCompletion(CompletionLists, MaxCompletionLen)

SpecCompletion == Init /\ [][NextCompletion]_vars

\* the wrapping: one message of any body in a window of any width
NextWrap ==
  \/ Receive(Strings(BodyChars, MaxBody), Nicknames, 1)
  \/ ResizeTextWin({1, 2}, TextWidths)
  \/ RefreshTextWin

SpecWrap == InitNormal /\ [][NextWrap]_vars

\* the scrolling: short notices in a narrow window of any height
NextTextWin ==
  \/ Receive(Strings({"a"}, MaxShortBody), {None}, MaxMessages)
  \/ Scroll(MaxPos)
  \/ ResizeTextWin(0..MaxHeight, {time_offset + 1, time_offset + 2})
  \/ RefreshTextWin

SpecTextWin == InitNormal /\ [][NextTextWin]_vars

\* the two threads, each running the methods that draw
NextLock ==
  \/ \E t \in Threads, method \in Methods : Enter(t, method)
  \/ \E t \in Threads : Step(t)

SpecLock == InitNormal /\ [][NextLock]_vars

\* the two threads under a scheduler that lets each of them run: a thread
\* that can make its next call, again and again, makes it
SpecLockFair ==
  /\ InitNormal
  /\ [][NextLock]_vars
  /\ \A t \in Threads : SF_vars(Step(t))

\* a region of any class, resized and refreshed
NextRegions ==
  \/ Construct
  \/ Resize
  \/ Refresh

SpecRegions == InitNormal /\ [][NextRegions]_vars

\* a roster window of a fixed height and the cursor moving on a roster of a
\* fixed length
NextRoster ==
  \/ ConstructRoster
  \/ RefreshRoster
  \/ MoveCursorDown
  \/ MoveCursorUp

SpecRoster == InitNormal /\ [][NextRoster]_vars

\* a conversation: the user says lines, the tab is locked and unlocked
NextConversation ==
  \/ CommandSay
  \/ Lock
  \/ Unlock
  \/ GetDestJid

SpecConversation == InitNormal /\ [][NextConversation]_vars

(***************************************************************************)
(* The claims.                                                             *)
(***************************************************************************)

\* C1: in every state reached by the editing commands at a fixed width,
\* 0 <= pos <= min(width-1, len(text)) and 0 <= pos+line_pos <= len(text).
C1_CursorInText ==
  /\ 0 <= pos
  /\ pos <= Min(width - 1, Len(text))
  /\ 0 <= pos + line_pos
  /\ pos + line_pos <= Len(text)

C3_HistoryAppendOnly ==
  [][\/ history' = history
     \/ /\ op' = "get_text"
        /\ text /= <<>>
        /\ history' = Append(history, text)]_vars

C3_Witness ==
  /\ op = "key_down"
  /\ Len(history) = 2
  /\ history[1] /= history[2]
  /\ text = history[2]

\* C4: every command but the completion trigger leaves the completion state
\* reset: hit_list empty and last_completion None.
C4_CompletionReset ==
  op \notin {"__init__", "auto_completion"}
    => hit_list = <<>> /\ last_completion = None

\* C5: no command and no completion trigger raises an exception.
C5_NeverRaises == raised = ""

\* C6: get_text returns the current text and empties text, pos and line_pos;
\* a non-empty text is appended to the history and histo_pos becomes the
\* last index; an empty text leaves history and histo_pos alone.
C6_GetText ==
  [][op' = "get_text" /\ raised' = "" =>
       /\ ret' = Str(text)
       /\ text' = <<>> /\ pos' = 0 /\ line_pos' = 0
       /\ text /= <<>> => /\ history' = Append(history, text)
                          /\ histo_pos' = Len(history') - 1
       /\ text = <<>> => /\ history' = history
                         /\ histo_pos' = histo_pos]_vars

C6_Witness ==
  /\ op = "get_text"
  /\ ret = Str(<<"a", "a">>)
  /\ Len(history) = 2
  /\ history[2] = <<"a", "a">>
  /\ histo_pos = 1
  /\ text = <<>>

\* C7, as claimed: from any state, delete_end_of_line followed at once by
\* paste_clipboard leaves the text as it was before the kill.
C7_KillYank ==
  op = "paste_clipboard" /\ before /= None => text = before.text

\* C7, amended: delete_end_of_line followed at once by paste_clipboard
\* leaves the text as it was before the kill when the cursor was not at the
\* end of the text or the clipboard was empty; with the cursor at the end
\* the kill is a no-op and the paste inserts what an earlier kill had cut.
C7_KillYankWhenCut ==
  /\ op = "paste_clipboard"
  /\ before /= None
  /\ before.cursor /= Len(before.text) \/ ~Truthy(before.clipboard)
  => text = before.text

C7_Witness ==
  /\ op = "paste_clipboard"
  /\ before /= None
  /\ before.cursor = 1
  /\ Len(before.text) = 3
  /\ Truthy(before.clipboard)
  /\ clipboard = Str(From(before.text, 1))
  /\ text = before.text

\* k consecutive completion triggers with the same nicks, in normal mode
RECURSIVE Triggers(_, _, _, _)
Triggers(s, user_list, add_after, k) ==
  IF k = 0 \/ s.raised /= "" THEN s
  ELSE Triggers(auto_completion(s, user_list, add_after, "normal"),
                user_list, add_after, k - 1)

Distinct(l) == \A i, j \in 1..Len(l) : i /= j => l[i] /= l[j]

\* C8: in normal mode, with N >= 2 distinct matching nicks, consecutive
\* triggers substitute the nicks in list order, and the text is back at the
\* first nick after exactly N more triggers, not earlier.
C8_Rotation ==
  /\ completion = "normal"
  /\ raised = ""
  /\ pos + line_pos = Len(text)
  /\ hit_list = <<>> /\ last_completion = None
  => \A user_list \in CompletionLists, add_after \in BOOLEAN :
       LET first == Triggers(Self, user_list, add_after, 1)
           N == Len(first.hit_list)
           after == normal_after(Self, add_after)
           kept == Upto(first.text,
                        Len(first.text) - Len(first.hit_list[1]) - Len(after))
           T(k) == Triggers(Self, user_list, add_after, k)
       IN N >= 2 /\ Distinct(first.hit_list) =>
            /\ \A k \in 1..N :
                 /\ T(k).raised = ""
                 /\ T(k).text = kept \o first.hit_list[k] \o after
            /\ \A k \in 2..N : T(k).text /= first.text
            /\ T(N + 1).text = first.text

\* the text before the last whitespace-delimited token of s
BeforeToken(s) ==
  LET solid == {i \in 1..Len(s) : ~IsSpace(s[i])}
      last == CHOOSE i \in solid : \A j \in solid : j <= i
      spaces == {i \in 1..last : IsSpace(s[i])}
  IN IF spaces = {} THEN <<>>
     ELSE SubSeq(s, 1, CHOOSE i \in spaces : \A j \in spaces : j <= i)

\* the longest p such that every nick of l starts, ignoring case, with p
LongestCommonPrefix(l) ==
  LET common == {n \in 0..Len(l[1]) :
                   \A i \in 1..Len(l) :
                     /\ n <= Len(l[i])
                     /\ lower(SubSeq(l[i], 1, n)) = lower(SubSeq(l[1], 1, n))}
  IN SubSeq(l[1], 1, CHOOSE n \in common : \A m \in common : m <= n)

C10_NotAtEnd ==
  [][op' = "auto_completion" /\ pos + line_pos /= Len(text) =>
       /\ raised' = ""
       /\ UNCHANGED <<text, pos, line_pos, hit_list, last_completion>>]_vars

C10_Witness ==
  /\ op = "auto_completion"
  /\ pos + line_pos < Len(text)
  /\ text = nick_al
  /\ raised = ""

\* the last whitespace-delimited token of s, '' when s has none
TrailingToken(s) == IF split(s) = <<>> THEN <<>> ELSE Item(split(s), -1)

C12_BuildLinesTerminates ==
  build_lines_from_messages(room.messages, text_win.width).returns

\* the text of the line cut from txt when `available' characters fit: up to
\* the first newline among them; else, when txt is longer, up to the last
\* space among them or all of them; else the whole of txt
Cut(txt, available) ==
  LET fits == Upto(txt, available)
  IN IF find(fits, "\n", 0) /= -1 THEN Upto(txt, find(fits, "\n", 0))
     ELSE IF Len(txt) > available
       THEN (IF rfind(fits, " ") /= -1 THEN Upto(txt, rfind(fits, " "))
             ELSE fits)
     ELSE txt

\* the texts of the lines l
Texts(l) == [i \in 1..Len(l) |-> l[i].text]

\* C13: with width - offset >= 1 characters available, the line cut from a
\* body ends at the first newline among the first available characters;
\* else, only when the body is longer than that, at the last space among
\* them, or after them when there is no space; else it is the whole body.
\* Every text left to wrap is the body of some message, so this is every
\* slice.  With 10 characters available 'a bb ccccccc' gives 'a bb' and
\* 'ccccccc'.
C13_Slices ==
  /\ \A i \in 1..Len(room.messages) :
       LET message == room.messages[i]
           available == text_win.width - text_offset(message.nickname)
           built == build_lines_from_messages(<<message>>, text_win.width)
       IN message /= None /\ message.txt /= <<>> /\ available >= 1 =>
            /\ built.returns
            /\ built.lines[1].text = Cut(message.txt, available)
  /\ Texts(build_lines_from_messages(
             <<Message(<<"a", " ", "b", "b", " ", "c", "c", "c", "c", "c",
                         "c", "c">>, None)>>, time_offset + 10).lines)
       = << <<"a", " ", "b", "b">>, <<"c", "c", "c", "c", "c", "c", "c">> >>

\* the lines got from the texts of the lines l, each taken as the body of a
\* message of the same nickname in a window of width w
RECURSIVE Rewrap(_, _, _)
Rewrap(l, nickname, w) ==
  IF l = <<>> THEN Returns(<<>>)
  ELSE LET these == build_lines_from_messages(
                      <<Message(Head(l).text, nickname)>>, w)
       IN IF ~these.returns THEN these
          ELSE LET others == Rewrap(Tail(l), nickname, w)
               IN [others EXCEPT !.lines = these.lines \o @]

\* C14: wrapping again is idempotent: the texts of the lines of a message,
\* each given back as the body of a message of the same nickname at the same
\* width, give lines of the same texts.
C14_Idempotent ==
  \A i \in 1..Len(room.messages) :
    LET message == room.messages[i]
        built == build_lines_from_messages(<<message>>, text_win.width)
        again == Rewrap(built.lines, message.nickname, text_win.width)
    IN message /= None /\ built.returns =>
         /\ again.returns
         /\ Texts(again.lines) = Texts(built.lines)

\* the lines derived from the messages of the room at the width of the window
Derived == build_lines_from_messages(room.messages, text_win.width).lines

\* the last call was a TextWin.refresh that wrote the lines
Rendered == op = "TextWin.refresh" /\ lines /= None

\* C15, as claimed: after a TextWin.refresh that renders (height >= 1) the
\* scroll offset is not negative and offset + height is at most the number of
\* derived lines.
C15_ScrollInLines ==
  Rendered => /\ room.pos >= 0
              /\ room.pos + text_win.height <= Len(Derived)

\* C15, amended: after a TextWin.refresh that renders, the scroll offset is
\* not negative and offset + height is at most the number of derived lines
\* when there are at least height lines; the offset is 0 when there are fewer.
C15_ScrollClamped ==
  Rendered => /\ room.pos >= 0
              /\ Len(Derived) >= text_win.height
                   => room.pos + text_win.height <= Len(Derived)
              /\ Len(Derived) < text_win.height => room.pos = 0

C15_Witness ==
  /\ Rendered
  /\ Len(Derived) = 2
  /\ text_win.height = 3
  /\ room.pos = 0

\* the lines of l from the one `above' lines from the last, h of them at most
Above(l, above, h) ==
  SubSeq(l, Max(Len(l) - above - h + 1, 1), Len(l) - above)

\* C16, as claimed: a refresh that renders writes the last height lines
\* when the offset is 0 and the height lines above the last offset lines
\* otherwise; with height 3 and 5 derived lines it writes the last 3 lines at
\* offset 0, the lines 1 to 3 (counted from 0 at the oldest) at offset 2, and
\* it leaves no offset above 2.
C16_WindowShown ==
  Rendered =>
    /\ lines.val = Above(Derived, room.pos, text_win.height)
    /\ text_win.height = 3 /\ Len(Derived) = 5 =>
         /\ room.pos <= 2
         /\ room.pos = 0 => lines.val = SubSeq(Derived, 3, 5)
         /\ room.pos = 2 => lines.val = SubSeq(Derived, 2, 4)

\* C16, amended: the same, but at offset 2 the lines written are the lines
\* 0 to 2 (counted from 0 at the oldest).
C16_WindowAboveOffset ==
  Rendered =>
    /\ lines.val = Above(Derived, room.pos, text_win.height)
    /\ text_win.height = 3 /\ Len(Derived) = 5 =>
         /\ room.pos <= 2
         /\ room.pos = 0 => lines.val = SubSeq(Derived, 3, 5)
         /\ room.pos = 2 => lines.val = SubSeq(Derived, 1, 3)

C16_Witness ==
  /\ Rendered
  /\ text_win.height = 3
  /\ Len(Derived) = 5
  /\ room.pos = 2
  /\ lines.val = SubSeq(Derived, 1, 3)
  /\ lines.val /= SubSeq(Derived, 2, 4)

\* the calls that draw among the first n calls of a program
DrawsAmong(program, n) ==
  Cardinality({i \in 1..n : program[i] \in Draws})

\* thread t has drawn in the method it runs and has more to draw
MidRender(t) ==
  /\ threads[t] /= Idle
  /\ LET program == Program(threads[t].method)
     IN /\ DrawsAmong(program, threads[t].at) > 0
        /\ DrawsAmong(program, threads[t].at) < DrawsAmong(program, Len(program))

\* C17: every erase, write and flush on a window, made by a refresh, by a
\* key handler of Input or by a resize, is made by a thread that holds
\* g_lock, so that the renders of the two threads never interleave.
C17_DrawnUnderLock ==
  /\ drawn /= None /\ drawn.call \in Draws => drawn.locked
  /\ ~(MidRender("input") /\ MidRender("event"))

\* C18: resizing a region to a geometry for which the creation of the window
\* fails never raises and makes the region a sink: the refresh calls that
\* follow do not raise and draw nothing; this for every class, and for a
\* region whose first creation failed.  After a resize to a valid geometry
\* the refresh draws on a window of that geometry again.
C18_DegenerateResize ==
  /\ op = "resize" => raised = ""
  /\ op = "refresh" /\ Degenerate(region.height, region.width) =>
       /\ raised = ""
       /\ ~region.painted
  /\ op = "refresh" /\ raised = "" /\ region.visible
       /\ ~Degenerate(region.height, region.width) =>
       /\ region.painted
       /\ region.win = Window(region.height, region.width)

\* C19: no refresh of a region that has a window raises, whatever the
\* geometry and the content: a write out of the window is absorbed, the
\* writes made directly on self.win included.
C19_DrawsNeverRaise ==
  op = "refresh" /\ region.win /= None => raised = ""

\* C20: inserting a printable character at the logical cursor c = pos +
\* line_pos yields text[:c] + ch + text[c:] and the logical cursor c + 1; pos
\* advances when it is below width - 1, and line_pos advances only when pos
\* is already width - 1, pos staying there; also with the cursor in the
\* middle of a text longer than the window.
C20_Insert ==
  [][op' = "do_command" /\ raised' = "" =>
       LET c == pos + line_pos
       IN /\ Len(text') = Len(text) + 1
          /\ Upto(text', c) = Upto(text, c)
          /\ From(text', c + 1) = From(text, c)
          /\ pos' + line_pos' = c + 1
          /\ IF pos < width - 1
               THEN pos' = pos + 1 /\ line_pos' = line_pos
               ELSE pos' = pos /\ line_pos' = line_pos + 1]_vars

\* C21: in every reachable state key_left decreases the logical cursor
\* pos + line_pos by exactly 1 when it is above 0 (line_pos when pos is 0
\* and line_pos > 0, else pos) and changes nothing when it is 0; key_right
\* increases it by exactly 1 when it is below len(text) and changes nothing
\* when it equals len(text).
C21_LeftRight ==
  [][/\ op' = "key_left" =>
          /\ text' = text
          /\ IF pos + line_pos = 0
               THEN pos' = pos /\ line_pos' = line_pos
             ELSE IF pos = 0
               THEN pos' = pos /\ line_pos' = line_pos - 1
             ELSE pos' = pos - 1 /\ line_pos' = line_pos
     /\ op' = "key_right" =>
          /\ text' = text
          /\ pos' + line_pos' =
               IF pos + line_pos < Len(text) THEN pos + line_pos + 1
               ELSE pos + line_pos
          /\ pos + line_pos >= Len(text) =>
               pos' = pos /\ line_pos' = line_pos]_vars

\* C22: in every reachable state with logical cursor c, key_backspace with
\* c > 0 removes exactly the character at index c - 1 and leaves the logical
\* cursor at c - 1, also when pos = 0 and line_pos > 0; key_dc with
\* c < len(text) removes exactly the character at index c and leaves the
\* logical cursor at c; at its boundary each changes nothing.
C22_BackspaceDc ==
  [][LET c == pos + line_pos
     IN /\ op' = "key_backspace" =>
             IF c > 0
               THEN /\ text' = Upto(text, c - 1) \o From(text, c)
                    /\ Len(text') = Len(text) - 1
                    /\ pos' + line_pos' = c - 1
               ELSE /\ text' = text
                    /\ pos' = pos /\ line_pos' = line_pos
        /\ op' = "key_dc" =>
             IF c < Len(text)
               THEN /\ text' = Upto(text, c) \o From(text, c + 1)
                    /\ Len(text') = Len(text) - 1
                    /\ pos' + line_pos' = c
               ELSE /\ text' = text
                    /\ pos' = pos /\ line_pos' = line_pos]_vars

\* the index of the last space before index c of the text, 0 if there is none
PreviousSpace(s, c) ==
  IF \E i \in 0..(c - 1) : i < Len(s) /\ s[i + 1] = " "
    THEN CHOOSE i \in 0..(c - 1) :
           /\ i < Len(s) /\ s[i + 1] = " "
           /\ \A j \in (i + 1)..(c - 1) : j < Len(s) => s[j + 1] /= " "
    ELSE 0

\* the index of the first space after index c of the text, len(text) if
\* there is none
NextSpace(s, c) ==
  IF \E i \in (c + 1)..(Len(s) - 1) : s[i + 1] = " "
    THEN CHOOSE i \in (c + 1)..(Len(s) - 1) :
           /\ s[i + 1] = " "
           /\ \A j \in (c + 1)..(i - 1) : s[j + 1] /= " "
    ELSE Len(s)

\* C23: jump_word_left moves the logical cursor to the index of the last
\* space before the cursor (0 if there is none) and jump_word_right moves it
\* to the index of the first space after the cursor (len(text) if there is
\* none), from every reachable state; the text is left as it was.
C23_JumpWord ==
  [][LET c == pos + line_pos
     IN /\ op' = "jump_word_left" =>
             /\ text' = text
             /\ pos' + line_pos' = PreviousSpace(text, c)
        /\ op' = "jump_word_right" =>
             /\ text' = text
             /\ pos' + line_pos' = NextSpace(text, c)]_vars

\* C24: delete_end_of_line and delete_begining_of_line with something to
\* remove set the clipboard to exactly the removed substring, remove it from
\* the text and leave the cursor where key_end / key_home put it; with
\* nothing to remove they change nothing, the clipboard included; this in
\* every reachable state.
C24_Kill ==
  [][LET c == pos + line_pos
     IN /\ op' = "delete_end_of_line" =>
             IF c < Len(text)
               THEN /\ clipboard' = Str(From(text, c))
                    /\ text' = Upto(text, c)
                    /\ text' \o clipboard'.val = text
                    /\ pos' + line_pos' = Len(text')
               ELSE UNCHANGED <<text, pos, line_pos, clipboard>>
        /\ op' = "delete_begining_of_line" =>
             IF c > 0
               THEN /\ clipboard' = Str(Upto(text, c))
                    /\ text' = From(text, c)
                    /\ clipboard'.val \o text' = text
                    /\ pos' = 0 /\ line_pos' = 0
               ELSE UNCHANGED <<text, pos, line_pos, clipboard>>]_vars

\* C25: key_up changes nothing when the history is empty or when the oldest
\* line has already been loaded (histo_pos is -1): text, pos, line_pos and
\* histo_pos are unchanged, even if the text was edited after the oldest
\* line was loaded.
C25_UpAtOldest ==
  [][op' = "key_up" /\ (history = <<>> \/ histo_pos = -1) =>
       UNCHANGED <<text, pos, line_pos, histo_pos>>]_vars

\* C26: after a submit, one or more key_up followed by one key_down display
\* the line one newer than the line displayed before the key_down (key_up
\* leaves displayed the line of index histo_pos + 1); a key_down pressed
\* while the newest line is displayed empties the text with pos = line_pos
\* = 0.
C26_UpThenDown ==
  [][op = "key_up" /\ op' = "key_down" /\ history /= <<>> =>
       LET shown == histo_pos + 1
       IN IF shown = Len(history) - 1
            THEN text' = <<>> /\ pos' = 0 /\ line_pos' = 0
            ELSE text' = Item(history, shown + 1)]_vars

\* the text before the last whitespace-delimited token of s, s itself when it
\* has no token
BeforeTrailingToken(s) == IF split(s) = <<>> THEN s ELSE BeforeToken(s)

\* C27: in normal mode a first completion trigger with at least one matching
\* nick replaces exactly the last whitespace-delimited token of the text by
\* the first matching nick: the text becomes (the text before that token) +
\* nick + after, for every text with the cursor at its end, the texts ending
\* in whitespace included; hit_list is every nick whose lower case starts
\* with the lower case of the token, in the order supplied.
C27_NormalFirstTrigger ==
  /\ completion = "normal"
  /\ raised = ""
  /\ pos + line_pos = Len(text)
  /\ ~Truthy(last_completion)
  => \A user_list \in CompletionLists, add_after \in BOOLEAN :
       LET hits == matching(user_list, lower(TrailingToken(text)))
           after == normal_after(Self, add_after)
           new == auto_completion(Self, user_list, add_after, "normal")
       IN Len(hits) >= 1 =>
            /\ new.raised = ""
            /\ new.hit_list = hits
            /\ new.text = BeforeTrailingToken(text) \o hits[1] \o after

\* the after-text the policy gives to a completion in text s: the configured
\* punctuation and a space when the completed token is the first of the
\* line, a single space otherwise
PolicyAfter(s) ==
  IF strip(BeforeTrailingToken(s)) = <<>> THEN after_completion \o <<" ">>
  ELSE <<" ">>

Exact(hits, token) ==
  {i \in 1..Len(hits) : lower(hits[i]) = lower(token)}

\* the after-text of shell_completion: a single space when the text has more
\* than one token or the caller asks for none, else the punctuation and a
\* space
ShellAfter(s, add_after) ==
  IF HasSpace(strip(s)) \/ ~add_after THEN <<" ">>
  ELSE after_completion \o <<" ">>

\* C29: in shell mode, with exactly one matching nick a first trigger
\* substitutes it followed by the after-text and marks the completion
\* resolved (last_completion is False).  A trigger issued while the
\* completion is pending (last_completion is True), with the same nicks,
\* substitutes a nick followed by the after-text and leaves the pending
\* state exactly when the trailing token equals one matching nick ignoring
\* case; otherwise the text and the pending state are unchanged.
C29_ShellConfirm ==
  /\ completion = "shell"
  /\ raised = ""
  /\ pos + line_pos = Len(text)
  /\ text /= <<>>
  /\ ~Truthy(last_completion)
  => \A user_list \in CompletionLists, add_after \in BOOLEAN :
       LET hits == matching(user_list, lower(TrailingToken(text)))
           first == auto_completion(Self, user_list, add_after, "shell")
           token == TrailingToken(first.text)
           again == matching(user_list, lower(token))
           exact == Exact(again, token)
           second == auto_completion(first, user_list, add_after, "shell")
       IN /\ Len(hits) = 1 =>
               /\ first.raised = ""
               /\ first.text = BeforeTrailingToken(text) \o hits[1]
                                 \o ShellAfter(text, add_after)
               /\ first.last_completion = Bool(FALSE)
          /\ first.raised = "" /\ first.last_completion = Bool(TRUE) =>
               /\ second.raised = ""
               /\ IF exact /= {}
                    THEN /\ \E i \in exact :
                              second.text =
                                BeforeTrailingToken(first.text) \o again[i]
                                  \o ShellAfter(first.text, add_after)
                         /\ second.last_completion = Bool(FALSE)
                    ELSE /\ second.text = first.text
                         /\ second.last_completion = Bool(TRUE)

\* C30: when width - offset >= 1, build_lines_from_messages comes back and
\* every line of a message has a text of at most width - offset characters
\* that contains no newline.
C30_LineFits ==
  \A i \in 1..Len(room.messages) :
    LET message == room.messages[i]
        available == text_win.width - text_offset(message.nickname)
        built == build_lines_from_messages(<<message>>, text_win.width)
    IN message /= None /\ available >= 1 =>
         /\ built.returns
         /\ \A j \in 1..Len(built.lines) :
              /\ Len(built.lines[j].text) <= available
              /\ \A k \in 1..Len(built.lines[j].text) :
                   built.lines[j].text[k] /= "\n"

C30_Witness ==
  /\ op = "TextWin.refresh"
  /\ lines /= None
  /\ text_win.width = time_offset + 2
  /\ room.messages = <<Message(<<"a", "a", "\n", "a">>, None)>>
  /\ Texts(lines.val) = << <<"a", "a">>, <<"a">> >>

\* C31, as claimed: only the first line of a message carries the offset of
\* the time and the nickname: every continuation line of the message has
\* text_offset 0 (it is cut against the whole width) and has nickname and
\* time None.
C31_ContinuationAtZero ==
  \A i \in 1..Len(room.messages) :
    LET message == room.messages[i]
        built == build_lines_from_messages(<<message>>, text_win.width)
    IN message /= None /\ built.returns =>
         \A j \in 2..Len(built.lines) :
           /\ built.lines[j].text_offset = 0
           /\ built.lines[j].nickname = None
           /\ built.lines[j].time = None

\* C31, amended: only the first line of a message carries the time and the
\* nickname: every continuation line has nickname and time None, keeps the
\* text_offset of the first line (the length of the time and of the nick)
\* and, when width - offset >= 1, is cut against width - offset.
C31_ContinuationKeepsOffset ==
  \A i \in 1..Len(room.messages) :
    LET message == room.messages[i]
        offset == text_offset(message.nickname)
        available == text_win.width - offset
        built == build_lines_from_messages(<<message>>, text_win.width)
    IN message /= None /\ built.returns /\ built.lines /= <<>> =>
         /\ built.lines[1].nickname = shown_nick(message.nickname)
         /\ built.lines[1].time /= None
         /\ built.lines[1].text_offset = offset
         /\ \A j \in 2..Len(built.lines) :
              /\ built.lines[j].text_offset = offset
              /\ built.lines[j].nickname = None
              /\ built.lines[j].time = None
              /\ available >= 1 => Len(built.lines[j].text) <= available

C31_Witness ==
  /\ op = "TextWin.refresh"
  /\ lines /= None
  /\ text_win.width = time_offset + 3 + 2
  /\ room.messages = <<Message(<<"a", "a", "a">>, Str(<<"n">>))>>
  /\ Len(lines.val) = 2
  /\ lines.val[1].nickname = Str(<<"n">>)
  /\ lines.val[2].nickname = None
  /\ lines.val[2].text_offset = time_offset + 3
  /\ lines.val[2].text = <<"a">>

\* s is made of spaces and newlines only
Breaks(s) == \A i \in 1..Len(s) : s[i] \in {" ", "\n"}

\* body is the texts, in order, each followed by some spaces or newlines
RECURSIVE Preserved(_, _)
Preserved(body, texts) ==
  IF texts = <<>> THEN body = <<>>
  ELSE /\ startswith(body, Head(texts))
       /\ \E dropped \in 0..(Len(body) - Len(Head(texts))) :
            LET after == From(body, Len(Head(texts)))
            IN /\ Breaks(Upto(after, dropped))
               /\ Preserved(From(after, dropped), Tail(texts))

\* a notice, to stand beside the message of the room
OtherMessage == Message(<<"a", " ", "a">>, None)

\* C32: when width - offset >= 1 the texts of the lines of a message, in
\* order, are its body from which only spaces and newlines, at the breaks,
\* are missing: nothing else is dropped, repeated, moved or added; the lines
\* of several messages and the separators come in the order of the messages.
C32_ContentPreserved ==
  \A i \in 1..Len(room.messages) :
    LET message == room.messages[i]
        w == text_win.width
        built == build_lines_from_messages(<<message>>, w)
        other == build_lines_from_messages(<<OtherMessage>>, w)
        all == build_lines_from_messages(
                 <<message, None, OtherMessage, message>>, w)
    IN message /= None /\ w - text_offset(message.nickname) >= 1 =>
         /\ built.returns
         /\ Preserved(message.txt, Texts(built.lines))
         /\ all.returns
         /\ all.lines = built.lines \o <<None>> \o other.lines \o built.lines

C32_Witness ==
  /\ op = "TextWin.refresh"
  /\ lines /= None
  /\ text_win.width = time_offset + 2
  /\ room.messages = <<Message(<<"a", " ", "a", "\n">>, None)>>
  /\ Texts(lines.val) = << <<"a">>, <<"a">> >>

\* body is the texts, in order, each followed by at most one space or newline
RECURSIVE PreservedButOne(_, _)
PreservedButOne(body, texts) ==
  IF texts = <<>> THEN body = <<>>
  ELSE /\ startswith(body, Head(texts))
       /\ \E dropped \in 0..Min(1, Len(body) - Len(Head(texts))) :
            LET after == From(body, Len(Head(texts)))
            IN /\ Breaks(Upto(after, dropped))
               /\ PreservedButOne(From(after, dropped), Tail(texts))

\* C33: when width - offset >= 1, each break consumes exactly the character
\* at which it is made: a break at a space drops that space only, a break at
\* a newline that newline only, a hard break nothing; so at most one
\* character, a space or a newline, is missing after each line (and k
\* newlines in a row leave k - 1 empty lines between two texts).
C33_OneCharacterPerBreak ==
  \A i \in 1..Len(room.messages) :
    LET message == room.messages[i]
        built == build_lines_from_messages(<<message>>, text_win.width)
        texts == Texts(built.lines)
    IN /\ message /= None
       /\ text_win.width - text_offset(message.nickname) >= 1
       => /\ built.returns
          /\ PreservedButOne(message.txt, texts)

\* C34: TextWin.refresh on a window that is not visible or whose height is
\* <= 0 does nothing: it writes no line and leaves the scroll offset and the
\* messages of the room as they were; and for every height refresh leaves the
\* messages of the room as they were.
C34_RefreshNoOp ==
  [][op' = "TextWin.refresh" =>
       /\ room'.messages = room.messages
       /\ text_win' = text_win
       /\ ~text_win.visible \/ text_win.height <= 0 =>
            /\ lines' = None
            /\ room' = room
            /\ ret' = None]_vars

\* a refresh of a visible window of height 0 in a room that has messages and
\* is scrolled
C34_Witness ==
  /\ op = "TextWin.refresh"
  /\ text_win.visible
  /\ text_win.height = 0
  /\ Len(room.messages) = MaxMessages
  /\ room.pos > 0
  /\ lines = None

\* the methods that are the refresh of a region, or the whole of it
Refreshes ==
  {"refresh", "Input.rewrite_text", "VerticalSeparator.rewrite_line",
   "RosterWin.refresh", "TextWin.refresh"}

\* how many of the first n calls of a program are the call c
CallsAmong(program, n, c) ==
  Cardinality({i \in 1..n : program[i] = c})

\* C35: the calls one refresh makes on its region come in the order erase,
\* the writes, one flush, all of them in one hold of g_lock: no write before
\* the erase, none after the flush, and the refresh ends having flushed once.
C35_EraseWritesFlush ==
  [][\A t \in Threads :
       threads[t] /= Idle /\ threads[t].method \in Refreshes
         /\ threads'[t] /= threads[t] =>
         LET program == Program(threads[t].method)
             at == threads[t].at
             call == program[at + 1]
         IN /\ call \in Draws =>
                 /\ g_lock = t
                 /\ CallsAmong(program, at, "acquire") = 1
                 /\ CallsAmong(program, at, "release") = 0
                 /\ CallsAmong(program, at, "flush") = 0
            /\ call = "erase" => CallsAmong(program, at, "write") = 0
            /\ call = "write" =>
                 CallsAmong(program, Len(program), "erase")
                   = CallsAmong(program, at, "erase")
            /\ threads'[t] = Idle =>
                 CallsAmong(program, Len(program), "flush") = 1]_vars

\* thread t is at the `with g_lock:' of the method it runs
Waiting(t) ==
  /\ threads[t] /= Idle
  /\ Program(threads[t].method)[threads[t].at + 1] = "acquire"

\* C36: a thread that holds g_lock gives it back, and a thread that waits
\* for g_lock gets it, whatever the two threads refresh; no thread that holds
\* the lock asks for it again.
C36_LockReleased ==
  /\ \A t \in Threads : (g_lock = t) ~> (g_lock /= t)
  /\ \A t \in Threads : Waiting(t) ~> (g_lock = t)
  /\ [](\A t \in Threads : Waiting(t) => g_lock /= t)

\* C37: of the messages a conversation tab has sent, the first carries the
\* own nickname and no other does, whatever calls of command_say were
\* cancelled by a handler that emptied the body.
C37_NickOnFirstSent ==
  \A i \in 1..Len(tab.sent) : (tab.sent[i].nick /= None) <=> (i = 1)

\* the tab is locked on the resource
LockedOn(t, resource) ==
  /\ t.locked_resource = Str(resource)
  /\ get_dest_jid(t) = Str(t.name \o <<"/">> \o resource)

\* the tab is not locked
Unlocked(t) ==
  /\ t.locked_resource = None
  /\ get_dest_jid(t) = Str(t.name)

\* the buffer of the tab got n information messages and nothing else
Informed(n) ==
  /\ Len(tab'.buffer) = Len(tab.buffer) + n
  /\ SubSeq(tab'.buffer, 1, Len(tab.buffer)) = tab.buffer
  /\ \A i \in (Len(tab.buffer) + 1)..Len(tab'.buffer) : tab'.buffer[i].typ = 0

\* C38: lock(r) leaves the tab locked on r and unlock() leaves it unlocked,
\* get_dest_jid() returning name/r and the bare name; each of them adds one
\* information message when it changes the state of the tab and none when it
\* does not, and no other call changes the lock.
C38_LockUnlock ==
  [][/\ op' = "lock" /\ raised' = "" =>
          /\ LockedOn(tab', args'.resource)
          /\ Informed(IF LockedOn(tab, args'.resource) THEN 0 ELSE 1)
     /\ op' = "unlock" =>
          /\ Unlocked(tab')
          /\ Informed(IF Unlocked(tab) THEN 0 ELSE 1)
     /\ op' \in {"command_say", "get_dest_jid"} =>
          tab'.locked_resource = tab.locked_resource
     /\ op' = "get_dest_jid" =>
          /\ ret' = get_dest_jid(tab)
          /\ tab' = tab
          /\ LockedOn(tab, <<"r">>) \/ LockedOn(tab, <<"s">>) \/ Unlocked(tab)
    ]_vars

\* the tab was locked on r, then on s, unlocked, and is asked its jid
C38_Witness ==
  /\ op = "get_dest_jid"
  /\ ret = Str(Name)
  /\ Len(tab.buffer) = 3
  /\ tab.buffer[1].arguments = <<Name, <<"r">>>>
  /\ tab.buffer[2].arguments = <<Name, <<"s">>>>
  /\ tab.buffer[3].format = "Conversation unlocked."

\* C39: after any moves of the cursor on a roster of a fixed length in a
\* roster window of a fixed height >= 3, start_pos >= 1, pos is a row of the
\* roster, and the selected row is among the rows displayed:
\* start_pos - 1 <= pos <= start_pos + height - 3.
C39_CursorDisplayed ==
  region /= None /\ region.class = "RosterWin" /\ region.height >= 3 =>
    /\ region.start_pos >= 1
    /\ 0 <= region.pos
    /\ region.pos <= Max(0, region.roster_len - 1)
    /\ region.start_pos - 1 <= region.pos
    /\ region.pos <= region.start_pos + region.height - 3

=============================================================================
